---- MODULE Spec2Model ----
(***************************************************************************)
(* Real-time chat fan-out of core/users: ChatConsumer (consumers.py), the  *)
(* post_save handler broadcast_message (signals.py), the Message model     *)
(* (models.py) and the in-memory channel layer configured in settings.py.  *)
(*                                                                         *)
(* A consumer instance handles one event at a time (connect, receive,      *)
(* chat_message, disconnect); inside a handler every `await` is a point    *)
(* where other consumers run, so handlers are split at their awaits.       *)
(* An exception that leaves a handler ends the consumer instance: the      *)
(* framework closes the socket and no further handler of that instance,    *)
(* disconnect included, runs.                                              *)
(*                                                                         *)
(* The channel layer lives in one process and keeps a queue per channel.   *)
(* Its timers (message expiry, group expiry) and its queue capacity are    *)
(* out of reach of the runs modelled here and are left out.                *)
(*                                                                         *)
(* Beside the chat: the page that renders the stored messages              *)
(* (ChatPageView, views.py) and the accounts behind the REST endpoints     *)
(* register, verify-otp, login and profile update (views.py,               *)
(* serializers.py, models.py).  Each part has its own specification over   *)
(* the same variables: Spec, SpecFlight, SpecPair and SpecSignal for the   *)
(* chat, SpecRegistry for the group alone, SpecPage and SpecAuth.          *)
(***************************************************************************)
EXTENDS Integers, Sequences, FiniteSets, TLC

\* ---------------------------------------------------------------- bounds
NumSessions == 2      \* live connections
MaxInputs   == 1      \* inbound frames plus messages created by the admin
MaxOps      == 4      \* group_add / group_discard calls made on the bare registry
MaxStore    == 52     \* rows of the Message table when the chat page is read
MaxTies     == 1      \* creations that find the clock where the last one left it
MaxClock    == 6      \* minutes the clock of the accounts runs for

\* ChatPageView.get: the slice [:50]
PageSize == 50

\* OTP.is_expired: timedelta(minutes=5)
OtpMinutes == 5

Sessions == 1..NumSessions

\* ----------------------------------------------------------- data values
\* The user table: primary key -> email.
Users == (1 :> "alice@example.com")
UserIds == DOMAIN Users
\* sender_id values a client may put in a frame: the known ids and one more.
SenderIds == 1..(Cardinality(UserIds) + 1)

None == "None"
Anonymous == "Anonymous"

\* Text is a sequence of characters; " " stands for any whitespace.
\* The message texts a client may send: empty, whitespace only, plain, and
\* padded with whitespace on both sides.
Strings == {<< >>, <<" ">>, <<"h", "i">>, <<" ", "h", "i", " ">>}

IsSpace(c) == c = " "

RECURSIVE LStrip(_)
LStrip(s) == IF s # << >> /\ IsSpace(Head(s)) THEN LStrip(Tail(s)) ELSE s

RECURSIVE RStrip(_)
RStrip(s) ==
    IF s # << >> /\ IsSpace(s[Len(s)]) THEN RStrip(SubSeq(s, 1, Len(s) - 1))
    ELSE s

\* str.strip() with no argument.
StripNone(s) == s
Strip(s) == RStrip(LStrip(s))

\* What json.loads(text_data) yields, by shape:
\*   kind    "notjson"   -> JSONDecodeError
\*           "nonobject" -> a list, number, string or null
\*           "object"    -> a dict
\*   msgKind "absent" | "str" | "nonstr"   (the value under 'message')
\*   sidKind "absent" | "int"              (the value under 'sender_id')
Frame(k, mk, m, sk, sid) ==
    [kind |-> k, msgKind |-> mk, message |-> m, sidKind |-> sk, sender_id |-> sid]

Frames ==
    {Frame("notjson", "absent", << >>, "absent", 0),
     Frame("nonobject", "absent", << >>, "absent", 0),
     Frame("object", "nonstr", << >>, "int", 1)}
    \cup {Frame("object", "absent", << >>, "int", u) : u \in SenderIds}
    \cup {Frame("object", "str", m, "absent", 0) : m \in Strings}
    \cup {Frame("object", "str", m, "int", u) : m \in Strings, u \in SenderIds}

\* True of text made of whitespace only (the empty text included).
IsBlank(m) == \A i \in 1..Len(m) : IsSpace(m[i])

\* The shape of a frame, kept in the history of handled frames.
FrameShape(f) ==
    [kind |-> f.kind, msgKind |-> f.msgKind, sidKind |-> f.sidKind,
     sender_id |-> f.sender_id, blank |-> IsBlank(f.message)]

NoFrame == FrameShape(Frame("notjson", "absent", << >>, "absent", 0))

VARIABLES
    state,       \* session -> "New" | "Added" | "Joined" | "Closed"
    raised,      \* session -> handler an exception escaped from, or "none"
    group,       \* the channels in the layer's group 'chat_room'
    inbox,       \* session -> events queued on its channel
    sent,        \* session -> frames written to its client
    pc,          \* session -> position inside receive: "idle" | "save" | "send"
    cur,         \* session -> locals of the receive in progress
    messages,    \* the Message table, in creation order
    broadcasts,  \* history: every group_send call, in order
    done,        \* history: every finished receive call, in order
    gone,        \* the sessions whose transport has closed
    budget,      \* how many inputs this run may take, how many tied timestamps
    ops,         \* history: the calls made on the bare registry, in order
    layer,       \* whether settings configure a channel layer
    saves,       \* history: every Message.save made outside a consumer
    page,        \* what the last ChatPageView.get passed to the template
    accounts,    \* the User table of the REST endpoints: email -> row
    otps,        \* the OTP table
    now,         \* the clock, in minutes
    tokens,      \* the emails a token pair has been issued to
    last         \* history: the last REST request and its response

vars == <<state, raised, group, inbox, sent, pc, cur, messages, broadcasts, done,
          gone, budget, ops, layer, saves, page, accounts, otps, now, tokens, last>>

\* The variables of the parts beside the chat: the chat page, the accounts.
auth == <<accounts, otps, now, tokens, last>>
beside == <<page, auth>>

\* What the chat handlers never touch.
offStore == <<budget, ops, layer, beside>>
offChat == <<saves, offStore>>

\* The values the REST endpoints are driven with.
Emails == {"bob@example.com", "eve@example.com"}
Codes == {"111111", "222222"}
Passwords == {"secret-pw", "wrong-pw"}
Names == {"Bob", "Robert"}
NoAccount == [exists |-> FALSE, password |-> "", name |-> "", is_verified |-> FALSE]
NoRequest == [op |-> "none", email |-> "", code |-> "", status |-> 0]

NoCur == [frame |-> NoFrame, content |-> << >>, sender_id |-> 0,
          sender_email |-> None, saved |-> 0, bids |-> {}, gone0 |-> FALSE]

InitOn(b, k, lyr) ==
    /\ layer = lyr
    /\ saves = << >>
    /\ state = [s \in Sessions |-> "New"]
    /\ raised = [s \in Sessions |-> "none"]
    /\ group = {}
    /\ inbox = [s \in Sessions |-> << >>]
    /\ sent = [s \in Sessions |-> << >>]
    /\ pc = [s \in Sessions |-> "idle"]
    /\ cur = [s \in Sessions |-> NoCur]
    /\ messages = << >>
    /\ broadcasts = << >>
    /\ done = << >>
    /\ gone = {}
    /\ budget = [inputs |-> b, ties |-> k]
    /\ ops = << >>
    /\ page = [total |-> 0, rows |-> << >>]
    /\ accounts = [e \in Emails |-> NoAccount]
    /\ otps = {}
    /\ now = 0
    /\ tokens = {}
    /\ last = NoRequest

\* settings.py configures the in-memory channel layer.
InitWith(b) == InitOn(b, 0, TRUE)

Init == InitWith(MaxInputs)


\* ------------------------------------------------- channel layer (in memory)
\* get_channel_layer() is not None
ChannelLayerConfigured == layer

GroupAddNone(grp, s) == grp
GroupAdd(grp, s) == grp \cup {s}

GroupDiscardKeep(grp, s) == grp
GroupDiscardToggle(grp, s) == IF s \in grp THEN grp \ {s} ELSE grp \cup {s}
GroupDiscard(grp, s) == grp \ {s}

\* The dict handed to group_send; bid numbers the group_send call (history).
Event(m, snd, bid) == [type |-> "chat_message", message |-> m, sender |-> snd, bid |-> bid]

\* group_send: the event is queued on the channel of every current member.
GroupSendFirstOnly(inb, grp, ev) ==
    [t \in Sessions |->
        IF t \in grp /\ \A u \in grp : t <= u THEN Append(inb[t], ev) ELSE inb[t]]
GroupSendPrepend(inb, grp, ev) ==
    [t \in Sessions |-> IF t \in grp THEN <<ev>> \o inb[t] ELSE inb[t]]
GroupSend(inb, grp, ev) ==
    [t \in Sessions |-> IF t \in grp THEN Append(inb[t], ev) ELSE inb[t]]

\* One entry of the group_send history.
Sending(origin, m, snd, grp, msg) ==
    [origin |-> origin, message |-> m, sender |-> snd, members |-> grp, msg |-> msg]

\* --------------------------------------------------------------- signals.py
ShouldBroadcastInverted(created) == ~created /\ ChannelLayerConfigured
ShouldBroadcast(created) == created /\ ChannelLayerConfigured

\* UsersConfig.ready imports users.signals, which connects the handler.
SignalsRegistered == TRUE

\* post_save handler; instance is messages[msg].  Yields the channel queues
\* and the group_send history after the handler has run.
\* error: the handler raised (group_send called on no layer).
BroadcastMessageOnSave(created, msg, instance, inb, bl, grp) ==
    [inbox |-> GroupSend(inb, grp,
                   Event(instance.content, Users[instance.sender], Len(bl) + 1)),
     broadcasts |-> Append(bl,
                   Sending("signal", instance.content, Users[instance.sender], grp, msg)),
     error |-> FALSE]
BroadcastMessage(created, msg, instance, inb, bl, grp) ==
    IF ~SignalsRegistered \/ ~ShouldBroadcast(created)
    THEN [inbox |-> inb, broadcasts |-> bl, error |-> FALSE]
    ELSE IF ~ChannelLayerConfigured
    THEN [inbox |-> inb, broadcasts |-> bl, error |-> TRUE]
    ELSE [inbox |-> GroupSend(inb, grp,
                       Event(instance.content, Users[instance.sender], Len(bl) + 1)),
          broadcasts |-> Append(bl,
                       Sending("signal", instance.content, Users[instance.sender], grp, msg)),
          error |-> FALSE]

\* timestamp = DateTimeField(auto_now_add=True): the clock at creation.  The
\* clock does not run backwards, and two creations can read the same instant.
Ties == Cardinality({i \in 1..(Len(messages) - 1) :
                        messages[i].timestamp = messages[i + 1].timestamp})
NextStamps ==
    IF messages = << >> THEN {1}
    ELSE LET prev == messages[Len(messages)].timestamp
         IN  {prev + 1} \cup (IF Ties < budget.ties THEN {prev} ELSE {})

\* Message.objects.create(sender, content), post_save handler included.
NewMessage(u, c, via, ts) == [sender |-> u, content |-> c, via |-> via, timestamp |-> ts]

\* ------------------------------------------------------------- consumers.py
\* receive, lines 48-56: what the try block and the emptiness test decide.
ParseFrame(f) ==
    IF f.kind = "notjson" THEN [result |-> "ignored", content |-> << >>, sender_id |-> 0]
    ELSE IF f.kind = "nonobject" \/ f.msgKind = "nonstr"
        THEN [result |-> "raise", content |-> << >>, sender_id |-> 0]
    ELSE LET content == Strip(IF f.msgKind = "str" THEN f.message ELSE << >>)
             sender_id == IF f.sidKind = "int" THEN f.sender_id ELSE 0
         IN  [result |-> IF content = << >> THEN "empty" ELSE "ok",
              content |-> content, sender_id |-> sender_id]

\* sender_email or 'Anonymous'
DisplayNameRaw(sender_email) == sender_email
DisplayName(sender_email) == IF sender_email = None THEN Anonymous ELSE sender_email

Finished(s, c, outcome) ==
    [s |-> s, frame |-> c.frame, saved |-> c.saved, bids |-> c.bids,
     sender_email |-> c.sender_email, outcome |-> outcome,
     gone0 |-> c.gone0, gone |-> s \in gone]

FramesTaken == Len(done) + Cardinality({s \in Sessions : pc[s] # "idle"})
AdminMade == Len(saves)
InputsTaken == FramesTaken + AdminMade

\* connect, line 33, where self.channel_layer is None
ConnectNoLayer(s) ==
    /\ state[s] = "New"
    /\ ~ChannelLayerConfigured
    /\ state' = [state EXCEPT ![s] = "Closed"]
    /\ raised' = [raised EXCEPT ![s] = "connect"]
    /\ UNCHANGED <<group, inbox, sent, pc, cur, messages, broadcasts, done>>
    /\ UNCHANGED <<gone, offChat>>

\* connect, line 33
ConnectGroupAdd(s) ==
    /\ state[s] = "New"
    /\ ChannelLayerConfigured
    /\ group' = GroupAdd(group, s)
    /\ state' = [state EXCEPT ![s] = "Added"]
    /\ UNCHANGED <<raised, inbox, sent, pc, cur, messages, broadcasts, done>>
    /\ UNCHANGED <<gone, offChat>>

\* connect, line 34
ConnectAccept(s) ==
    /\ state[s] = "Added"
    /\ state' = [state EXCEPT ![s] = "Joined"]
    /\ UNCHANGED <<raised, group, inbox, sent, pc, cur, messages, broadcasts, done>>
    /\ UNCHANGED <<gone, offChat>>

\* disconnect: the socket closed (client close, protocol error, lost transport)
Disconnect(s) ==
    /\ state[s] = "Joined"
    /\ pc[s] = "idle"
    /\ group' = GroupDiscard(group, s)
    /\ state' = [state EXCEPT ![s] = "Closed"]
    /\ UNCHANGED <<raised, inbox, sent, pc, cur, messages, broadcasts, done>>
    /\ UNCHANGED <<gone, offChat>>

\* receive, lines 48-56, up to the await of save_message
ReceiveEager(s, f) ==
    /\ state[s] = "Joined"
    /\ InputsTaken < budget.inputs
    /\ LET p == ParseFrame(f)
           c == [NoCur EXCEPT !.frame = FrameShape(f), !.content = p.content,
                              !.sender_id = p.sender_id, !.gone0 = s \in gone]
       IN  CASE p.result = "ok" ->
                  /\ pc' = [pc EXCEPT ![s] = "save"]
                  /\ cur' = [cur EXCEPT ![s] = c]
                  /\ UNCHANGED <<state, raised, done>>
             [] p.result = "raise" ->
                  /\ state' = [state EXCEPT ![s] = "Closed"]
                  /\ raised' = [raised EXCEPT ![s] = "receive"]
                  /\ done' = Append(done, Finished(s, c, "raised"))
                  /\ UNCHANGED <<pc, cur>>
             [] OTHER ->
                  /\ done' = Append(done, Finished(s, c, p.result))
                  /\ UNCHANGED <<state, raised, pc, cur>>
    /\ UNCHANGED <<group, inbox, sent, messages, broadcasts>>
    /\ UNCHANGED <<gone, offChat>>
Receive(s, f) ==
    /\ state[s] = "Joined"
    /\ pc[s] = "idle"
    /\ InputsTaken < budget.inputs
    /\ LET p == ParseFrame(f)
           c == [NoCur EXCEPT !.frame = FrameShape(f), !.content = p.content,
                              !.sender_id = p.sender_id, !.gone0 = s \in gone]
       IN  CASE p.result = "ok" ->
                  /\ pc' = [pc EXCEPT ![s] = "save"]
                  /\ cur' = [cur EXCEPT ![s] = c]
                  /\ UNCHANGED <<state, raised, done>>
             [] p.result = "raise" ->
                  /\ state' = [state EXCEPT ![s] = "Closed"]
                  /\ raised' = [raised EXCEPT ![s] = "receive"]
                  /\ done' = Append(done, Finished(s, c, "raised"))
                  /\ UNCHANGED <<pc, cur>>
             [] OTHER ->
                  /\ done' = Append(done, Finished(s, c, p.result))
                  /\ UNCHANGED <<state, raised, pc, cur>>
    /\ UNCHANGED <<group, inbox, sent, messages, broadcasts>>
    /\ UNCHANGED <<gone, offChat>>

\* save_message, lines 93-96: the sender exists and the row is created;
\* the post_save handler runs inside create.
SaveMessageCreated(s) ==
    /\ pc[s] = "save"
    /\ cur[s].sender_id \in UserIds
    /\ \E ts \in NextStamps :
       LET m == NewMessage(cur[s].sender_id, cur[s].content, "receive", ts)
           msg == Len(messages) + 1
           b == BroadcastMessage(TRUE, msg, m, inbox, broadcasts, group)
       IN  /\ messages' = Append(messages, m)
           /\ inbox' = b.inbox
           /\ broadcasts' = b.broadcasts
           /\ cur' = [cur EXCEPT ![s].sender_email = Users[m.sender],
                                 ![s].saved = msg,
                                 ![s].bids = (Len(broadcasts) + 1)..Len(b.broadcasts)]
    /\ pc' = [pc EXCEPT ![s] = "send"]
    /\ UNCHANGED <<state, raised, group, sent, done>>
    /\ UNCHANGED <<gone, offChat>>

\* save_message, lines 97-98: User.DoesNotExist
SaveMessageNoUser(s) ==
    /\ pc[s] = "save"
    /\ cur[s].sender_id \notin UserIds
    /\ cur' = [cur EXCEPT ![s].sender_email = None]
    /\ pc' = [pc EXCEPT ![s] = "send"]
    /\ UNCHANGED <<state, raised, group, inbox, sent, messages, broadcasts, done>>
    /\ UNCHANGED <<gone, offChat>>

\* save_message: the database refuses the lookup or the insert; the error is
\* not User.DoesNotExist, so it leaves save_message and receive.
SaveMessageFails(s) ==
    /\ pc[s] = "save"
    /\ state' = [state EXCEPT ![s] = "Closed"]
    /\ raised' = [raised EXCEPT ![s] = "save_message"]
    /\ done' = Append(done, Finished(s, cur[s], "store_failed"))
    /\ pc' = [pc EXCEPT ![s] = "idle"]
    /\ cur' = [cur EXCEPT ![s] = NoCur]
    /\ UNCHANGED <<group, inbox, sent, messages, broadcasts>>
    /\ UNCHANGED <<gone, offChat>>

\* receive, lines 62-69
ReceiveGroupSend(s) ==
    /\ pc[s] = "send"
    /\ LET bid == Len(broadcasts) + 1
           snd == DisplayName(cur[s].sender_email)
           c == [cur[s] EXCEPT !.bids = @ \cup {bid}]
       IN  /\ inbox' = GroupSend(inbox, group, Event(cur[s].content, snd, bid))
           /\ broadcasts' = Append(broadcasts,
                  Sending("receive", cur[s].content, snd, group, cur[s].saved))
           /\ done' = Append(done, Finished(s, c, "sent"))
    /\ pc' = [pc EXCEPT ![s] = "idle"]
    /\ cur' = [cur EXCEPT ![s] = NoCur]
    /\ UNCHANGED <<state, raised, group, sent, messages>>
    /\ UNCHANGED <<gone, offChat>>

\* json.dumps of the outbound frame
OutFrame(ev) == [message |-> ev.message, sender |-> ev.sender, bid |-> ev.bid]

\* chat_message, the write succeeds
ChatMessage(s) ==
    /\ state[s] = "Joined"
    /\ pc[s] = "idle"
    /\ s \notin gone
    /\ inbox[s] # << >>
    /\ sent' = [sent EXCEPT ![s] = Append(@, OutFrame(Head(inbox[s])))]
    /\ inbox' = [inbox EXCEPT ![s] = Tail(@)]
    /\ UNCHANGED <<state, raised, group, pc, cur, messages, broadcasts, done>>
    /\ UNCHANGED <<gone, offChat>>

\* chat_message, self.send raises (the connection is dead)
ChatMessageFails(s) ==
    /\ state[s] = "Joined"
    /\ pc[s] = "idle"
    /\ inbox[s] # << >>
    /\ inbox' = [inbox EXCEPT ![s] = Tail(@)]
    /\ state' = [state EXCEPT ![s] = "Closed"]
    /\ raised' = [raised EXCEPT ![s] = "chat_message"]
    /\ UNCHANGED <<group, sent, pc, cur, messages, broadcasts, done>>
    /\ UNCHANGED <<gone, offChat>>

\* ------------------------------------------- the close of a socket, in steps
\* The client closes the socket or the transport is lost while the consumer
\* may be inside a handler.  The framework queues the disconnect event; it is
\* handled when the running handler has returned.
TransportClose(s) ==
    /\ state[s] \in {"Added", "Joined"}
    /\ s \notin gone
    /\ gone' = gone \cup {s}
    /\ UNCHANGED <<state, raised, group, inbox, sent, pc, cur, messages, broadcasts,
                   done, offChat>>

\* disconnect, as the handler of the queued disconnect event
DisconnectInFlight(s) ==
    /\ s \in gone
    /\ state[s] = "Joined"
    /\ group' = GroupDiscard(group, s)
    /\ state' = [state EXCEPT ![s] = "Closed"]
    /\ UNCHANGED <<raised, inbox, sent, pc, cur, messages, broadcasts, done>>
    /\ UNCHANGED <<gone, offChat>>
DisconnectQueued(s) ==
    /\ s \in gone
    /\ Disconnect(s)

\* chat_message after the transport has closed, on a server that drops what
\* is sent to a closed connection: the handler returns, nothing is written.
ChatMessageDropped(s) ==
    /\ state[s] = "Joined"
    /\ pc[s] = "idle"
    /\ s \in gone
    /\ inbox[s] # << >>
    /\ inbox' = [inbox EXCEPT ![s] = Tail(@)]
    /\ UNCHANGED <<state, raised, group, sent, pc, cur, messages, broadcasts, done,
                   gone, offChat>>

\* What a save made outside a consumer came to.
Saved(op, msg, error) == [op |-> op, msg |-> msg, error |-> error]

\* A Message created outside the consumer (admin add form).  The form saves
\* inside a transaction: a post_save handler that raises undoes the insert.
AdminCreate(u, c) ==
    /\ InputsTaken < budget.inputs
    /\ \E ts \in NextStamps :
       LET m == NewMessage(u, c, "admin", ts)
           b == BroadcastMessage(TRUE, Len(messages) + 1, m, inbox, broadcasts, group)
       IN  /\ messages' = IF b.error THEN messages ELSE Append(messages, m)
           /\ inbox' = b.inbox
           /\ broadcasts' = b.broadcasts
           /\ saves' = Append(saves, Saved("create", Len(messages) + 1, b.error))
    /\ UNCHANGED <<state, raised, group, sent, pc, cur, done>>
    /\ UNCHANGED <<gone, offStore>>

\* A stored Message saved again (admin change form): post_save, created False.
AdminUpdate(msg, c) ==
    /\ InputsTaken < budget.inputs
    /\ msg \in 1..Len(messages)
    /\ LET m == [messages[msg] EXCEPT !.content = c]
           b == BroadcastMessage(FALSE, msg, m, inbox, broadcasts, group)
       IN  /\ messages' = IF b.error THEN messages ELSE [messages EXCEPT ![msg] = m]
           /\ inbox' = b.inbox
           /\ broadcasts' = b.broadcasts
           /\ saves' = Append(saves, Saved("update", msg, b.error))
    /\ UNCHANGED <<state, raised, group, sent, pc, cur, done>>
    /\ UNCHANGED <<gone, offStore>>

\* Saves made outside the consumers, with or without a channel layer, and
\* listeners on the chat when there is one.
NextSignal ==
    \/ \E s \in Sessions : ConnectNoLayer(s)
    \/ \E s \in Sessions : ConnectGroupAdd(s)
    \/ \E s \in Sessions : ConnectAccept(s)
    \/ \E s \in Sessions : ChatMessage(s)
    \/ \E u \in UserIds, c \in Strings \ {<< >>} : AdminCreate(u, c)
    \/ \E msg \in 1..Len(messages), c \in Strings \ {<< >>} : AdminUpdate(msg, c)

SpecSignal == (\E lyr \in BOOLEAN : InitOn(2, 0, lyr)) /\ [][NextSignal]_vars

\* ----------------------------------------------------------------- views.py
Min(a, b) == IF a <= b THEN a ELSE b

\* The primary keys whose row and the next share a timestamp.
TiedPairs == {i \in 1..(Len(messages) - 1) :
                 messages[i].timestamp = messages[i + 1].timestamp}

\* order_by('-timestamp'): primary keys by falling timestamp.  Rows of equal
\* timestamp come in an order the database chooses; k is the tied pair it
\* returns in rising order of primary key, 0 for none.
OrderByTimestampDesc(k) ==
    [j \in 1..Len(messages) |->
        LET pk == Len(messages) + 1 - j
        IN  IF k = 0 THEN pk
            ELSE IF pk = k THEN k + 1
            ELSE IF pk = k + 1 THEN k
            ELSE pk]

\* the slice [:n]
Slice(q, n) == SubSeq(q, 1, Min(n, Len(q)))

\* reversed(list(q))
ReversedSame(q) == q
Reversed(q) == [j \in 1..Len(q) |-> q[Len(q) + 1 - j]]

\* ChatPageView.get
ChatPageGet ==
    /\ \E k \in TiedPairs \cup {0} :
          page' = [total |-> Len(messages),
                   rows |-> Reversed(Slice(OrderByTimestampDesc(k), PageSize))]
    /\ UNCHANGED <<state, raised, group, inbox, sent, pc, cur, messages, broadcasts,
                   done, gone, budget, ops, layer, saves, auth>>

\* The Message table fills up; then the chat page is read, any number of
\* times.  A page depends on the table as it is when read, so reads of every
\* table are covered without rows being added after a read.
NextPage ==
    \/ page.total = 0 /\ \E u \in UserIds : AdminCreate(u, <<"h", "i">>)
    \/ ChatPageGet

SpecPage == InitOn(MaxStore, MaxTies, TRUE) /\ [][NextPage]_vars

\* ------------------------------------------ serializers.py, views.py: accounts
chat == <<state, raised, group, inbox, sent, pc, cur, messages, broadcasts, done,
          gone, budget, ops, layer, saves, page>>

Response(op, e, code, status) == [op |-> op, email |-> e, code |-> code, status |-> status]

\* A serializer keeps the keys of the request body that are among its fields.
Validated(body, fields) == [k \in (DOMAIN body) \cap fields |-> body[k]]
Field(data, k, default) == IF k \in DOMAIN data THEN data[k] ELSE default

\* UserRegistrationSerializer.Meta.fields, UserUpdateSerializer.Meta.fields
RegistrationFields ==
    {"id", "name", "email", "mobile", "profile_image", "latitude", "longitude", "password"}
UpdateFields == {"name", "mobile", "profile_image", "latitude", "longitude"}

\* The request bodies: a client may send any key, is_verified included.
RegisterBodies ==
    [email : Emails, password : {"secret-pw"}, name : {"Bob"}, is_verified : {TRUE}]
    \cup [email : Emails, password : {"secret-pw"}, name : {"Bob"}]
UpdateBodies == [name : Names, is_verified : {TRUE}] \cup [name : Names]

\* RegisterView.post
Register(body) ==
    LET data == Validated(body, RegistrationFields)
        e == data.email
    IN  IF accounts[e].exists
        THEN /\ last' = Response("register", e, "", 400)
             /\ UNCHANGED <<accounts, otps, now, tokens>>
        ELSE /\ accounts' = [accounts EXCEPT ![e] =
                    [exists |-> TRUE, password |-> data.password, name |-> data.name,
                     is_verified |-> Field(data, "is_verified", FALSE)]]
             /\ \E code \in Codes :
                    otps' = otps \cup {[user |-> e, code |-> code, created_at |-> now]}
             /\ last' = Response("register", e, "", 201)
             /\ UNCHANGED <<now, tokens>>

\* OTP.is_expired
IsExpiredNever(otp) == FALSE
IsExpired(otp) == now > otp.created_at + OtpMinutes

\* OTP.objects.filter(user, code).order_by('-created_at').first()
Latest(rows) == CHOOSE o \in rows : \A q \in rows : q.created_at <= o.created_at

\* VerifyOTPView.post
VerifyOtp(e, code) ==
    LET rows == {o \in otps : o.user = e /\ o.code = code}
    IN  IF ~accounts[e].exists
        THEN /\ last' = Response("verify", e, code, 404)
             /\ UNCHANGED <<accounts, otps, now, tokens>>
        ELSE IF rows = {} \/ IsExpired(Latest(rows))
        THEN /\ last' = Response("verify", e, code, 400)
             /\ UNCHANGED <<accounts, otps, now, tokens>>
        ELSE /\ accounts' = [accounts EXCEPT ![e].is_verified = TRUE]
             /\ otps' = {o \in otps : o.user # e}
             /\ last' = Response("verify", e, code, 200)
             /\ UNCHANGED <<now, tokens>>

\* CustomTokenObtainPairSerializer.validate, behind POST /api/login/
Login(e, pw) ==
    IF ~accounts[e].exists \/ accounts[e].password # pw
    THEN /\ last' = Response("login", e, "", 401)
         /\ UNCHANGED <<accounts, otps, now, tokens>>
    ELSE IF ~accounts[e].is_verified
    THEN /\ last' = Response("login", e, "", 400)
         /\ UNCHANGED <<accounts, otps, now, tokens>>
    ELSE /\ tokens' = tokens \cup {e}
         /\ last' = Response("login", e, "", 200)
         /\ UNCHANGED <<accounts, otps, now>>

\* UserUpdateView (PATCH), for the user the token names
ProfileUpdate(e, body) ==
    /\ e \in tokens
    /\ LET data == Validated(body, UpdateFields)
       IN  accounts' = [accounts EXCEPT ![e] =
               [@ EXCEPT !.name = Field(data, "name", @),
                         !.is_verified = Field(data, "is_verified", @)]]
    /\ last' = Response("update", e, "", 200)
    /\ UNCHANGED <<otps, now, tokens>>

\* a minute passes
Tick ==
    /\ now < MaxClock
    /\ now' = now + 1
    /\ UNCHANGED <<accounts, otps, tokens, last>>

NextAuth ==
    \/ \E body \in RegisterBodies : Register(body) /\ UNCHANGED chat
    \/ \E e \in Emails, code \in Codes : VerifyOtp(e, code) /\ UNCHANGED chat
    \/ \E e \in Emails, pw \in Passwords : Login(e, pw) /\ UNCHANGED chat
    \/ \E e \in Emails, body \in UpdateBodies : ProfileUpdate(e, body) /\ UNCHANGED chat
    \/ Tick /\ UNCHANGED chat

SpecAuth == Init /\ [][NextAuth]_vars

\* One submission, with sockets closing at any moment.
NextFlight ==
    \/ \E s \in Sessions : ConnectGroupAdd(s)
    \/ \E s \in Sessions : ConnectAccept(s)
    \/ \E s \in Sessions : TransportClose(s)
    \/ \E s \in Sessions : DisconnectQueued(s)
    \/ \E s \in Sessions, f \in Frames : Receive(s, f)
    \/ \E s \in Sessions : SaveMessageCreated(s)
    \/ \E s \in Sessions : SaveMessageNoUser(s)
    \/ \E s \in Sessions : SaveMessageFails(s)
    \/ \E s \in Sessions : ReceiveGroupSend(s)
    \/ \E s \in Sessions : ChatMessage(s)
    \/ \E s \in Sessions : ChatMessageFails(s)
    \/ \E s \in Sessions : ChatMessageDropped(s)

SpecFlight == InitWith(1) /\ [][NextFlight]_vars

\* Two frames of one session, the others listening.
Submitter == CHOOSE s \in Sessions : \A t \in Sessions : s <= t

NextPair ==
    \/ \E s \in Sessions : ConnectGroupAdd(s)
    \/ \E s \in Sessions : ConnectAccept(s)
    \/ \E s \in Sessions : Disconnect(s)
    \/ \E f \in Frames : Receive(Submitter, f)
    \/ \E s \in Sessions : SaveMessageCreated(s)
    \/ \E s \in Sessions : SaveMessageNoUser(s)
    \/ \E s \in Sessions : SaveMessageFails(s)
    \/ \E s \in Sessions : ReceiveGroupSend(s)
    \/ \E s \in Sessions : ChatMessage(s)
    \/ \E s \in Sessions : ChatMessageFails(s)

SpecPair == InitWith(2) /\ [][NextPair]_vars

\* The registry on its own: group_add and group_discard called in any order,
\* for members and non-members alike.
RegistryCall(op, s, grp) == [op |-> op, s |-> s, after |-> grp]

RegistryJoin(s) ==
    /\ Len(ops) < MaxOps
    /\ group' = GroupAdd(group, s)
    /\ ops' = Append(ops, RegistryCall("join", s, group'))
    /\ UNCHANGED <<state, raised, inbox, sent, pc, cur, messages, broadcasts, done,
                   gone, budget, layer, saves, beside>>

RegistryLeave(s) ==
    /\ Len(ops) < MaxOps
    /\ group' = GroupDiscard(group, s)
    /\ ops' = Append(ops, RegistryCall("leave", s, group'))
    /\ UNCHANGED <<state, raised, inbox, sent, pc, cur, messages, broadcasts, done,
                   gone, budget, layer, saves, beside>>

NextRegistry ==
    \/ \E s \in Sessions : RegistryJoin(s)
    \/ \E s \in Sessions : RegistryLeave(s)

SpecRegistry == Init /\ [][NextRegistry]_vars

Next ==
    \/ \E s \in Sessions : ConnectGroupAdd(s)
    \/ \E s \in Sessions : ConnectAccept(s)
    \/ \E s \in Sessions : Disconnect(s)
    \/ \E s \in Sessions, f \in Frames : Receive(s, f)
    \/ \E s \in Sessions : SaveMessageCreated(s)
    \/ \E s \in Sessions : SaveMessageNoUser(s)
    \/ \E s \in Sessions : SaveMessageFails(s)
    \/ \E s \in Sessions : ReceiveGroupSend(s)
    \/ \E s \in Sessions : ChatMessage(s)
    \/ \E s \in Sessions : ChatMessageFails(s)
    \/ \E u \in UserIds, c \in Strings \ {<< >>} : AdminCreate(u, c)

Spec == Init /\ [][Next]_vars

TypeOK ==
    /\ state \in [Sessions -> {"New", "Added", "Joined", "Closed"}]
    /\ raised \in [Sessions -> {"none", "connect", "receive", "save_message", "chat_message"}]
    /\ group \subseteq Sessions
    /\ pc \in [Sessions -> {"idle", "save", "send"}]
    /\ \A i \in 1..Len(messages) : messages[i].sender \in UserIds


\* ------------------------------------------------------ vocabulary of claims
Handled == 1..Len(done)
Sendings == 1..Len(broadcasts)

\* The group_send calls made for message number msg of the store.
SendingsOf(msg) == {b \in Sendings : broadcasts[b].msg = msg}

\* Where the event of group_send call b is, for session t.
Pending(t, b) == \E k \in 1..Len(inbox[t]) : inbox[t][k].bid = b
Delivered(t, b) == \E k \in 1..Len(sent[t]) : sent[t][k].bid = b

\* The frames written to t that carry message number msg.
FramesFor(t, msg) == {k \in 1..Len(sent[t]) : broadcasts[sent[t][k].bid].msg = msg}

\* A well-formed frame with text that is not blank.
HasText(fr) == fr.kind = "object" /\ fr.msgKind = "str" /\ ~fr.blank
KnownSender(fr) == fr.sidKind = "int" /\ fr.sender_id \in UserIds
UnknownSender(fr) == fr.sidKind = "int" /\ fr.sender_id \notin UserIds
Malformed(fr) == fr.kind # "object" \/ fr.msgKind = "absent" \/ fr.sidKind = "absent"

\* The history of handled frames agrees with the Message table.
SavedAgrees ==
    Cardinality({i \in 1..Len(messages) : messages[i].via = "receive"})
        = Cardinality({i \in Handled : done[i].saved # 0})
          + Cardinality({s \in Sessions : cur[s].saved # 0})

\* C1: every frame whose message was persisted by receive has exactly one
\* group_send issued for that message, the post_save handler's send and
\* receive's own send both counted.
C1_ExactlyOneBroadcast ==
    \A i \in Handled :
        done[i].saved # 0 => Cardinality(SendingsOf(done[i].saved)) = 1

\* Session t was a member at every send made for message msg, is still
\* Joined and has handled everything queued for it.
StayedJoined(t, msg) ==
    /\ state[t] = "Joined"
    /\ inbox[t] = << >>
    /\ \A b \in SendingsOf(msg) : t \in broadcasts[b].members

\* C2: when A and another session B are both joined and stay joined, and A
\* has submitted a frame with text and a known sender, each of A and B has
\* been written the frame {message, sender's email} of that message exactly
\* once.
C2_EachMemberOnce ==
    \A i \in Handled : \A t \in Sessions \ {done[i].s} :
        (/\ HasText(done[i].frame) /\ KnownSender(done[i].frame)
         /\ done[i].outcome = "sent"
         /\ StayedJoined(done[i].s, done[i].saved)
         /\ StayedJoined(t, done[i].saved))
        => \A u \in {done[i].s, t} :
              /\ Cardinality(FramesFor(u, done[i].saved)) = 1
              /\ \A k \in FramesFor(u, done[i].saved) :
                    /\ sent[u][k].message = messages[done[i].saved].content
                    /\ sent[u][k].sender = Users[done[i].frame.sender_id]

\* C3: a Message created by the admin has exactly one group_send, issued by
\* the post_save handler with the message's content and its sender's email,
\* and that send reaches the channel of every session in the group at that
\* time.
C3_AdminSendReachesMembers ==
    \A i \in 1..Len(messages) :
        messages[i].via = "admin"
        => /\ Cardinality(SendingsOf(i)) = 1
           /\ \A b \in SendingsOf(i) :
                 /\ broadcasts[b].origin = "signal"
                 /\ broadcasts[b].message = messages[i].content
                 /\ broadcasts[b].sender = Users[messages[i].sender]
                 /\ \A t \in broadcasts[b].members :
                       Pending(t, b) \/ Delivered(t, b) \/ raised[t] = "chat_message"

C3_AdminCreateStep ==
    /\ Len(messages') = Len(messages) + 1
    /\ messages'[Len(messages')].via = "admin"
    => /\ Len(broadcasts') = Len(broadcasts) + 1
       /\ broadcasts'[Len(broadcasts')].members = group
       /\ \A t \in group : inbox'[t] # inbox[t] /\ inbox'[t][Len(inbox'[t])].bid = Len(broadcasts')
       /\ \A t \in Sessions \ group : inbox'[t] = inbox[t]

C3_AdminCreateBroadcastsOnce ==
    []C3_AdminSendReachesMembers /\ [][C3_AdminCreateStep]_vars

C3_Witness ==
    \E i \in 1..Len(messages) :
        /\ messages[i].via = "admin"
        /\ \E b \in SendingsOf(i) :
              /\ Cardinality(broadcasts[b].members) >= 2
              /\ \E t \in broadcasts[b].members : Delivered(t, b)

C5_MalformedDiscarded ==
    \A i \in Handled :
        Malformed(done[i].frame)
        => /\ done[i].outcome \in {"ignored", "empty"}
           /\ done[i].saved = 0
           /\ done[i].bids = {}

\* C6: when the store fails during a submission, nothing is broadcast for it
\* and no exception leaves receive.
C6_StoreFailureSilent ==
    \A i \in Handled :
        done[i].outcome = "store_failed"
        => /\ done[i].bids = {}
           /\ raised[done[i].s] = "none"

\* C7: a frame whose text is empty or whitespace only never gets past the
\* emptiness test: nothing is persisted or broadcast for it, and the step
\* that handles it leaves the session Joined and every queue untouched.
C7_BlankInv ==
    /\ \A s \in Sessions : pc[s] # "idle" => ~cur[s].frame.blank
    /\ \A i \in Handled :
          (done[i].frame.kind = "object" /\ done[i].frame.msgKind = "str"
              /\ done[i].frame.blank)
          => done[i].outcome = "empty" /\ done[i].saved = 0 /\ done[i].bids = {}

C7_BlankStep ==
    /\ Len(done') = Len(done) + 1
    /\ done'[Len(done')].frame.kind = "object"
    /\ done'[Len(done')].frame.msgKind = "str"
    /\ done'[Len(done')].frame.blank
    => /\ state[done'[Len(done')].s] = "Joined"
       /\ UNCHANGED <<state, raised, group, inbox, sent, messages, broadcasts>>

C7_BlankContentDiscarded == []C7_BlankInv /\ [][C7_BlankStep]_vars

C7_Witness ==
    \E i \in Handled :
        /\ done[i].frame.kind = "object" /\ done[i].frame.msgKind = "str"
        /\ done[i].frame.blank
        /\ state[done[i].s] = "Joined"

\* C8: the event of a group_send is queued for every member of the group at
\* that time; it leaves a member's queue only by being handled there, and
\* a failed write in one member's chat_message touches no other session and
\* no sender.
Lost(t) ==
    {b \in Sendings : t \in broadcasts[b].members /\ ~Pending(t, b) /\ ~Delivered(t, b)}

C8_FanOutInv ==
    \A t \in Sessions :
        Cardinality(Lost(t)) <= (IF raised[t] = "chat_message" THEN 1 ELSE 0)

C8_FailureStep ==
    \A t \in Sessions :
        (raised[t] = "none" /\ raised'[t] = "chat_message")
        => /\ \A u \in Sessions \ {t} :
                 /\ inbox'[u] = inbox[u] /\ sent'[u] = sent[u]
                 /\ state'[u] = state[u] /\ raised'[u] = raised[u]
           /\ UNCHANGED <<group, pc, cur, messages, broadcasts, done>>

C8_DeliveryFailureIsolated == []C8_FanOutInv /\ [][C8_FailureStep]_vars

C8_Witness ==
    \E b \in Sendings : \E t, u \in broadcasts[b].members :
        /\ t # u
        /\ raised[t] = "chat_message" /\ b \in Lost(t)
        /\ Delivered(u, b)
        /\ raised[u] = "none"

\* C9: no Closed session is a member of the group.
C9_ClosedNotMember ==
    \A s \in Sessions : state[s] = "Closed" => s \notin group

\* C10: the group holds no session before its join or after its disconnect
\* has completed, and holds every session from the completion of its join
\* until its disconnect.
C10_MembershipTracksJoinLeave ==
    \A s \in Sessions :
        /\ state[s] = "New" => s \notin group
        /\ state[s] \in {"Added", "Joined"} => s \in group
        /\ (state[s] = "Closed" /\ raised[s] = "none") => s \notin group

C10_Witness ==
    \E s, t \in Sessions :
        /\ state[s] = "Closed" /\ raised[s] = "none" /\ s \notin group
        /\ state[t] = "Joined" /\ t \in group


\* The registry before call i of the history of registry calls.
Before(i) == IF i = 1 THEN {} ELSE ops[i - 1].after

\* C11: group_discard can always be called; called for a session that is not
\* a member it changes nothing, and called a second time in a row for the
\* same session it leaves the registry as the first call left it.
C11_LeaveIdempotent ==
    /\ Len(ops) < MaxOps => \A s \in Sessions : ENABLED RegistryLeave(s)
    /\ \A i \in 1..Len(ops) :
          ops[i].op = "leave"
          => /\ ops[i].s \notin ops[i].after
             /\ ops[i].s \notin Before(i) => ops[i].after = Before(i)
             /\ (i > 1 /\ ops[i - 1].op = "leave" /\ ops[i - 1].s = ops[i].s)
                => ops[i].after = ops[i - 1].after

C11_Witness ==
    \E i \in 2..Len(ops) :
        /\ ops[i].op = "leave" /\ ops[i - 1].op = "leave"
        /\ ops[i].s = ops[i - 1].s
        /\ i > 2 /\ ops[i].s \in Before(i - 1)
        /\ ops[i].after # {}

\* ---------------------------------------------------------------- C12
\* C12, as the specification states it: a session that has handed a valid
\* frame to save_message and group_send can begin its next frame while the
\* append or the group_send of the first is still in flight.
C12_AcceptsWhileInFlight ==
    \A s \in Sessions :
        (state[s] = "Joined" /\ pc[s] \in {"save", "send"} /\ InputsTaken < budget.inputs)
        => ENABLED (\E f \in Frames : Receive(s, f))

\* A frame of s whose handler has returned, with an event of it still queued
\* for some member: its delivery is not complete.
DeliveryPending(s) ==
    \E i \in Handled :
        /\ done[i].s = s /\ done[i].outcome = "sent"
        /\ \E t \in Sessions : \E b \in done[i].bids : Pending(t, b)

C12_Inv ==
    \A s \in Sessions :
        /\ pc[s] # "idle" => ~ ENABLED (\E f \in Frames : Receive(s, f))
        /\ (state[s] = "Joined" /\ pc[s] = "idle" /\ InputsTaken < budget.inputs)
           => ENABLED (\E f \in Frames : Receive(s, f))

C12_Step ==
    \A s \in Sessions :
        (cur'[s] # cur[s] /\ cur'[s].bids = {} /\ cur'[s] # NoCur) => pc[s] = "idle"

\* C12, amended: receive awaits save_message and group_send, and a consumer
\* handles one event at a time, so a session begins its next frame only when
\* the append and the group_send of the previous one have returned; it does
\* not wait for the queued events to be written to the members' sockets.
C12_OneFrameAtATime == [] C12_Inv /\ [][C12_Step]_vars

C12_Witness ==
    /\ pc[Submitter] = "save"
    /\ DeliveryPending(Submitter)

\* ---------------------------------------------------------------- C13
\* The frames whose socket closed after the frame was accepted and before
\* receive had issued its group_send.
ClosedInFlight ==
    {i \in Handled : done[i].gone /\ ~done[i].gone0 /\ done[i].outcome = "sent"}

\* C13, as the specification states it: a session torn down while its own
\* submission is in flight is absent from the member set the broadcast uses.
C13_AbsentFromSnapshot ==
    \A i \in ClosedInFlight :
        \A b \in done[i].bids : done[i].s \notin broadcasts[b].members

C13_Inv ==
    \A i \in ClosedInFlight :
        \A b \in done[i].bids :
            /\ done[i].s \in broadcasts[b].members
            /\ ~Delivered(done[i].s, b)
            /\ raised[done[i].s] \notin {"receive", "save_message"}
            /\ \A t \in broadcasts[b].members :
                   (t \notin gone /\ raised[t] # "chat_message")
                   => Pending(t, b) \/ Delivered(t, b)

C13_Step ==
    \A s \in Sessions : (s \in group /\ s \notin group') => pc[s] = "idle"

\* C13, amended: the disconnect handler runs only when receive has returned,
\* so a session whose socket closes while its submission is in flight is
\* still a member for every group_send of that submission; the event is
\* queued on its channel and no frame of it is written to the closed socket;
\* receive itself raises nothing, and the event reaches every other member
\* whose socket is open.
C13_TeardownInFlight == [] C13_Inv /\ [][C13_Step]_vars

C13_Witness ==
    \E i \in ClosedInFlight :
        /\ state[done[i].s] = "Closed"
        /\ raised[done[i].s] = "none"
        /\ done[i].s \notin group
        /\ \E t \in Sessions \ {done[i].s} :
               \A b \in done[i].bids : Delivered(t, b)

\* ---------------------------------------------------------------- C14
\* C14: the page holds exactly the min(50, total) most recently created
\* messages, oldest first.
C14_LastFiftyOldestFirst ==
    LET n == Min(PageSize, page.total)
    IN  page.rows = [j \in 1..n |-> page.total - n + j]

\* C14, amended: the page holds min(50, total) distinct rows in rising order
\* of timestamp, none of them older than a row left out; these are the most
\* recently created rows, oldest first, whenever no two rows of the table
\* share a timestamp.
C14_LatestByTimestamp ==
    LET n == Min(PageSize, page.total)
        on == {page.rows[j] : j \in 1..Len(page.rows)}
    IN  /\ Len(page.rows) = n
        /\ Cardinality(on) = n
        /\ on \subseteq 1..page.total
        /\ \A j \in 1..(n - 1) :
               messages[page.rows[j]].timestamp <= messages[page.rows[j + 1]].timestamp
        /\ \A i \in (1..page.total) \ on : \A r \in on :
               messages[i].timestamp <= messages[r].timestamp
        /\ Ties = 0 => C14_LastFiftyOldestFirst

\* More than 50 rows and a page cut at 50 between two rows of one timestamp:
\* the older of the two is on the page, the newer is not.
C14_Witness ==
    /\ page.total > PageSize
    /\ Len(page.rows) = PageSize
    /\ page.rows[1] = page.total - PageSize

\* ---------------------------------------------------------------- C15
C15_Inv == \A e \in tokens : accounts[e].is_verified

C15_Step ==
    \A e \in Emails :
        /\ (~accounts[e].exists /\ accounts'[e].exists) => ~accounts'[e].is_verified
        /\ (~accounts[e].is_verified /\ accounts'[e].is_verified)
           => /\ last'.op = "verify" /\ last'.email = e /\ last'.status = 200
              /\ \E o \in otps :
                    /\ o.user = e /\ o.code = last'.code
                    /\ now <= o.created_at + OtpMinutes
        /\ (e \notin tokens /\ e \in tokens')
           => last'.op = "login" /\ accounts[e].is_verified

\* C15: is_verified is false after registration and becomes true only by a
\* verify-otp request whose code matches an OTP of that user that has not
\* expired; login issues tokens only to a verified user.
C15_VerifiedOnlyByOtp == [] C15_Inv /\ [][C15_Step]_vars

\* One user verified in time, logged in and renamed by a body that also
\* carried is_verified; the other refused for an expired code and unverified.
C15_Witness ==
    \E e \in tokens : \E d \in Emails :
        /\ accounts[e].name = "Robert"
        /\ accounts[d].exists /\ ~accounts[d].is_verified
        /\ last = Response("verify", d, last.code, 400)
        /\ \E o \in otps : o.user = d /\ o.code = last.code /\ IsExpired(o)

\* ---------------------------------------------------------------- C16
\* The group_send calls of two frames of one session, the first handled
\* before the second; the second may still be inside receive.
SuccessivePairs ==
    {<<done[p[1]].bids, done[p[2]].bids>> :
        p \in {q \in Handled \X Handled :
                  /\ q[1] < q[2] /\ done[q[1]].s = done[q[2]].s
                  /\ done[q[1]].outcome = "sent" /\ done[q[2]].outcome = "sent"}}
    \cup {<<done[i].bids, cur[done[i].s].bids>> :
            i \in {k \in Handled : done[k].outcome = "sent"}}

Position(q, b) == CHOOSE k \in 1..Len(q) : q[k].bid = b

\* C16: of two valid frames one session submits one after the other, every
\* member is sent the broadcasts of the first before those of the second:
\* on the socket, in the channel queue, and across the two.
C16_PerSenderOrder ==
    \A pr \in SuccessivePairs : \A b1 \in pr[1] : \A b2 \in pr[2] : \A t \in Sessions :
        /\ b1 < b2
        /\ (Delivered(t, b1) /\ Delivered(t, b2))
           => Position(sent[t], b1) < Position(sent[t], b2)
        /\ (Pending(t, b1) /\ Pending(t, b2))
           => Position(inbox[t], b1) < Position(inbox[t], b2)
        /\ ~(Pending(t, b1) /\ Delivered(t, b2))

\* A listener that has been sent every broadcast of both frames.
C16_Witness ==
    \E i \in Handled : \E j \in Handled : \E t \in Sessions :
        /\ i < j /\ done[i].s = done[j].s /\ t # done[i].s
        /\ done[i].outcome = "sent" /\ done[j].outcome = "sent"
        /\ \A b \in done[i].bids \cup done[j].bids : Delivered(t, b)

\* ---------------------------------------------------------------- C17
Signalled == {b \in Sendings : broadcasts[b].origin = "signal"}
Created == {i \in 1..Len(saves) : saves[i].op = "create"}

C17_Inv ==
    /\ \A i \in 1..Len(saves) : ~saves[i].error
    /\ Cardinality(Signalled) = (IF layer THEN Cardinality(Created) ELSE 0)
    /\ Len(messages) = Cardinality(Created)

C17_Step ==
    Len(saves') > Len(saves)
    => LET r == saves'[Len(saves')]
       IN  IF r.op = "create" /\ layer
           THEN /\ Len(broadcasts') = Len(broadcasts) + 1
                /\ broadcasts'[Len(broadcasts')].msg = r.msg
                /\ broadcasts'[Len(broadcasts')].members = group
                /\ \A t \in group : Len(inbox'[t]) = Len(inbox[t]) + 1
           ELSE /\ broadcasts' = broadcasts
                /\ inbox' = inbox

\* C17: broadcast_message issues a group_send for a Message that was just
\* created and for no other save; with no channel layer configured it issues
\* none, and in neither case does the save raise.
C17_BroadcastOnlyOnCreate == [] C17_Inv /\ [][C17_Step]_vars

\* A message created with a listener joined, broadcast once, then saved
\* again with other content.
C17_Witness ==
    \E i \in 1..Len(saves) : \E t \in Sessions :
        /\ saves[i].op = "update"
        /\ state[t] = "Joined"
        /\ Cardinality(SendingsOf(saves[i].msg)) = 1
        /\ \A b \in SendingsOf(saves[i].msg) :
               t \in broadcasts[b].members
               /\ broadcasts[b].message # messages[saves[i].msg].content

\* The same saves with no channel layer.
C17_WitnessNoLayer ==
    /\ ~layer
    /\ \E i \in 1..Len(saves) : saves[i].op = "update"
    /\ \E s \in Sessions : raised[s] = "connect"

\* ---------------------------------------------------------------- C18
C18_Inv ==
    \A s \in Sessions :
        /\ state[s] = "Joined" => s \in group
        /\ state[s] = "New" => s \notin group

C18_Step ==
    \A s \in Sessions :
        /\ (state[s] # "Joined" /\ state'[s] = "Joined")
           => state[s] = "Added" /\ s \in group /\ group' = group
        /\ (state[s] = "New" /\ state'[s] # "New")
           => state'[s] = "Added" /\ s \in group'

\* C18: connect adds the session to the group 'chat_room' and only then
\* accepts, so a session that has been accepted and has not been torn down
\* is a member of the group.
C18_MemberBeforeAccept == [] C18_Inv /\ [][C18_Step]_vars

\* One session accepted, another added to the group and not yet accepted.
C18_Witness ==
    \E s \in Sessions : \E t \in Sessions :
        /\ state[s] = "Joined" /\ s \in group
        /\ state[t] = "Added" /\ t \in group

====
